---- MODULE Spec2Model ----
(***************************************************************************)
(* Model of the persistent vector store of rag_chatbot                     *)
(* (backend/app/services/vector_store.py, class FAISSVectorStore) and of   *)
(* the two module-level instances that share one index directory           *)
(* (backend/app/api/admin.py and backend/app/api/chat.py).                 *)
(*                                                                         *)
(* A store instance is a record of the object's fields.  The index         *)
(* directory is a record of three files; a file is absent, readable, or    *)
(* unreadable (a write that failed after the file was opened leaves a      *)
(* truncated file).  Modification times come from a logical clock that     *)
(* advances at every file write.                                           *)
(*                                                                         *)
(* The second part models the document chunker                             *)
(* (backend/app/services/llm_chunker.py, class LLMChunker): a text is a    *)
(* sequence of characters, a token is a piece of the text, and the         *)
(* splitting functions are operators over token sequences.  The chunker    *)
(* keeps no state between calls, so a behaviour of its specifications is   *)
(* one call, recorded with its arguments and its return value.             *)
(***************************************************************************)
EXTENDS Integers, Sequences, FiniteSets, TLC

\* ---------------------------------------------------------------- bounds
MaxAdds == 2        \* add_documents calls in one behaviour
MaxFaults == 1      \* add_documents calls whose _save fails
MaxAddsLong == 3    \* the same two bounds of the longer single-instance runs
MaxFaultsLong == 2
MaxTextLen == 5     \* characters of a text handed to the chunker
MaxChunkSize == 3   \* largest settings.chunk_size and settings.chunk_overlap
llm_window_tokens == 3          \* the macro window (8000 tokens) at the model's scale
llm_window_overlap_tokens == 1  \* its overlap (200 tokens) at the model's scale

\* ---------------------------------------------------------------- inputs
Admin == 1                       \* vector_store of api/admin.py
Chat == 2                        \* vector_store of api/chat.py
Stores == {Admin, Chat}
ChunkCounts == {1, 2}            \* lengths of the chunk list the caller may pass
Dims == {2, 3}                   \* embedding dimensionalities the caller may pass
DocIds == {"a", "b"}             \* document_id values the caller may pass
TopKs == {1, 5}                  \* top_k values the caller may pass
Queries == {1}                   \* query embeddings the caller may pass

\* ---------------------------------------------------------------- values
NoneM == 0                       \* Optional[float] mtime: None
NoneD == 0                       \* Optional[int] dimension: None
efConstruction == 100
efSearchInit == 128
efSearchMin == 64
efSearchMax == 512
efPerK == 32

\* self.index is None
NoIndex == [d |-> 0, vecs |-> <<>>, ef |-> 0]

\* faiss.IndexHNSWFlat(dimension, 32) with efSearch = 128, no vectors yet
NewIndex(dim) == [d |-> dim, vecs |-> <<>>, ef |-> efSearchInit]

ntotal(ix) == Len(ix.vecs)

\* a file of the index directory
Absent(empty) == [state |-> "absent", data |-> empty, mtime |-> NoneM]
Corrupt(empty, t) == [state |-> "corrupt", data |-> empty, mtime |-> t]
Written(val, t) == [state |-> "ok", data |-> val, mtime |-> t]

exists(f) == f.state # "absent"

\* FAISSVectorStore.__init__ before _load_or_create
NewStore ==
  [index |-> NoIndex, metadata |-> <<>>, document_info |-> {},
   dimension |-> NoneD,
   index_mtime |-> NoneM, metadata_mtime |-> NoneM, docinfo_mtime |-> NoneM]

EmptyDisk ==
  [index_path |-> Absent(NoIndex), metadata_path |-> Absent(<<>>),
   doc_info_path |-> Absent({})]

VARIABLES
  store,        \* store[s]: the fields of instance s
  constructed,  \* constructed[s]: instance s has run __init__
  disk,         \* the three files of settings.faiss_index_dir
  now,          \* logical clock of file modification times
  adds,         \* add_documents calls made so far
  faults,       \* add_documents calls whose _save failed so far
  completed,    \* instance whose add saved all three files last, 0 if none
  last          \* the call that ran last and what it returned

vars == <<store, constructed, disk, now, adds, faults, completed, last>>

\* ------------------------------------------------------------ _get_mtime
_get_mtime(f) == IF exists(f) THEN f.mtime ELSE NoneM

\* -------------------------------------------------------- _refresh_mtimes
_refresh_mtimes(st, dk) ==
  [st EXCEPT !.index_mtime = _get_mtime(dk.index_path),
             !.metadata_mtime = _get_mtime(dk.metadata_path),
             !.docinfo_mtime = _get_mtime(dk.doc_info_path)]

\* ------------------------------------------------------------------ _load
\* the try block runs to its end: every read succeeds
LoadSucceeds(dk) ==
  /\ dk.index_path.state = "ok"
  /\ dk.metadata_path.state = "ok"
  /\ dk.doc_info_path.state # "corrupt"

_load(st, dk) ==
  IF LoadSucceeds(dk)
  THEN _refresh_mtimes(
         [st EXCEPT !.index = dk.index_path.data,
                    !.metadata = dk.metadata_path.data,
                    !.document_info =
                       IF exists(dk.doc_info_path)
                       THEN dk.doc_info_path.data
                       ELSE st.document_info,
                    !.dimension = dk.index_path.data.d],
         dk)
  ELSE [st EXCEPT !.index = NoIndex, !.metadata = <<>>, !.document_info = {}]

\* --------------------------------------------------------- _load_or_create
_load_or_create(st, dk) ==
  IF exists(dk.index_path) /\ exists(dk.metadata_path)
  THEN _load(st, dk)
  ELSE st

\* ------------------------------------------------------ _reload_if_changed
mtime_became_available(st, dk) ==
  \/ _get_mtime(dk.index_path) # NoneM /\ st.index_mtime = NoneM
  \/ _get_mtime(dk.metadata_path) # NoneM /\ st.metadata_mtime = NoneM
  \/ _get_mtime(dk.doc_info_path) # NoneM /\ st.docinfo_mtime = NoneM

changed_after(st, dk) ==
  \/ /\ st.index_mtime # NoneM
     /\ _get_mtime(dk.index_path) # NoneM
     /\ _get_mtime(dk.index_path) > st.index_mtime
  \/ /\ st.metadata_mtime # NoneM
     /\ _get_mtime(dk.metadata_path) # NoneM
     /\ _get_mtime(dk.metadata_path) > st.metadata_mtime
  \/ /\ st.docinfo_mtime # NoneM
     /\ _get_mtime(dk.doc_info_path) # NoneM
     /\ _get_mtime(dk.doc_info_path) > st.docinfo_mtime

\* mutant: newer files are not noticed, only files that had no recorded time
Reloads_NewerIgnored(st, dk) ==
  \/ st.index = NoIndex /\ exists(dk.index_path) /\ exists(dk.metadata_path)
  \/ mtime_became_available(st, dk)

\* the conditions under which _reload_if_changed calls _load
Reloads(st, dk) ==
  \/ st.index = NoIndex /\ exists(dk.index_path) /\ exists(dk.metadata_path)
  \/ mtime_became_available(st, dk)
  \/ changed_after(st, dk)

_reload_if_changed(st, dk) ==
  IF Reloads(st, dk) THEN _load(st, dk) ELSE st

\* ------------------------------------------------------------------ _save
\* failAt = 0: every write succeeds; failAt = k: the k-th write raises, after
\* truncating its file when partial, before opening it otherwise.  The except
\* clause only prints: the recorded mtimes are refreshed on success alone.
Max(a, b) == IF a > b THEN a ELSE b

SaveIndex(st, dk, t, failAt, partial) ==
  IF failAt = 1
  THEN IF partial THEN [dk EXCEPT !.index_path = Corrupt(NoIndex, t + 1)] ELSE dk
  ELSE [dk EXCEPT !.index_path = Written(st.index, t + 1)]

SaveMetadata(st, dk, t, failAt, partial) ==
  IF failAt = 1 THEN dk
  ELSE IF failAt = 2
  THEN IF partial THEN [dk EXCEPT !.metadata_path = Corrupt(<<>>, t + 2)] ELSE dk
  ELSE [dk EXCEPT !.metadata_path = Written(st.metadata, t + 2)]

SaveDocInfo(st, dk, t, failAt, partial) ==
  IF failAt \in {1, 2} THEN dk
  ELSE IF failAt = 3
  THEN IF partial THEN [dk EXCEPT !.doc_info_path = Corrupt({}, t + 3)] ELSE dk
  ELSE [dk EXCEPT !.doc_info_path = Written(st.document_info, t + 3)]

SavedDisk(st, dk, t, failAt, partial) ==
  SaveDocInfo(st,
    SaveMetadata(st, SaveIndex(st, dk, t, failAt, partial), t, failAt, partial),
    t, failAt, partial)

\* mutant: the except clause lets the write error reach the caller
_save_Reraises(st, dk, t, failAt, partial) ==
  LET dk2 == SavedDisk(st, dk, t, failAt, partial)
  IN [store |-> IF failAt = 0 THEN _refresh_mtimes(st, dk2) ELSE st,
      disk |-> dk2,
      now |-> Max(t, Max(dk2.index_path.mtime,
                         Max(dk2.metadata_path.mtime, dk2.doc_info_path.mtime))),
      raised |-> failAt # 0]

\* mutant: a successful save does not record the new modification times
_save_NoRefresh(st, dk, t, failAt, partial) ==
  LET dk2 == SavedDisk(st, dk, t, failAt, partial)
  IN [store |-> st,
      disk |-> dk2,
      now |-> Max(t, Max(dk2.index_path.mtime,
                         Max(dk2.metadata_path.mtime, dk2.doc_info_path.mtime))),
      raised |-> FALSE]

_save(st, dk, t, failAt, partial) ==
  LET dk2 == SavedDisk(st, dk, t, failAt, partial)
  IN [store |-> IF failAt = 0 THEN _refresh_mtimes(st, dk2) ELSE st,
      disk |-> dk2,
      now |-> Max(t, Max(dk2.index_path.mtime,
                         Max(dk2.metadata_path.mtime, dk2.doc_info_path.mtime))),
      raised |-> FALSE]

\* ----------------------------------------------------------- add_documents
\* the n-th call of the behaviour passes chunks with contents <<n, 1>>, ...,
\* <<n, nc>> and the embeddings of these contents, named by the same pairs
Contents(n, k) == [i \in 1..k |-> <<n, i>>]

ChunkMetadata(n, nc, doc) ==
  [i \in 1..nc |->
     [document_id |-> doc, content |-> <<n, i>>,
      chunk_index |-> i - 1, total_chunks |-> nc]]

SetDocumentInfo(info, doc, nc) ==
  {r \in info : r.document_id # doc}
    \cup {[document_id |-> doc, chunk_count |-> nc]}

\* lines 141-152: the first document creates the index
InitIndex(st, dim) ==
  IF st.index = NoIndex
  THEN [st EXCEPT !.dimension = dim, !.index = NewIndex(dim)]
  ELSE st

\* lines 154-174: vectors, then metadata, then the registry entry
Appended(st, n, nc, nv, doc) ==
  [st EXCEPT !.index.vecs = @ \o Contents(n, nv),
             !.metadata = @ \o ChunkMetadata(n, nc, doc),
             !.document_info = SetDocumentInfo(@, doc, nc)]

\* line 137 raises ValueError for an empty embeddings list, index.add (line
\* 155) raises for vectors whose width is not the index's
Rejects(st, nv, dim) ==
  \/ nv = 0
  \/ st.index # NoIndex /\ dim # st.index.d

\* mutant: the chunk metadata is appended before index.add checks the width
add_documents_MetadataFirst(st, dk, t, n, nc, nv, dim, doc, failAt, partial) ==
  LET st1 == InitIndex(st, dim)
  IN IF Rejects(st, nv, dim)
     THEN [store |-> [st EXCEPT !.metadata = @ \o ChunkMetadata(n, nc, doc)],
           disk |-> dk, now |-> t, raised |-> TRUE]
     ELSE _save(Appended(st1, n, nc, nv, doc), dk, t, failAt, partial)

add_documents(st, dk, t, n, nc, nv, dim, doc, failAt, partial) ==
  LET st1 == InitIndex(st, dim)
  IN IF Rejects(st, nv, dim)
     THEN [store |-> st, disk |-> dk, now |-> t, raised |-> TRUE]
     ELSE _save(Appended(st1, n, nc, nv, doc), dk, t, failAt, partial)

\* -------------------------------------------------------------------- search
\* the squared L2 distance the index reports between query q and stored
\* vector v, in quarters; on unit vectors it is in [0, 4] up to the rounding of
\* float32 sums, so reported values on both sides of that range occur
Dist(q, v) == ((3 * v[1] + 5 * v[2] + 7 * q) % 23) - 3

RECURSIVE Nearest(_, _, _, _)
Nearest(q, vecs, k, taken) ==
  IF k = 0 \/ taken = DOMAIN vecs
  THEN <<>>
  ELSE LET cand == DOMAIN vecs \ taken
           best == CHOOSE p \in cand :
                     \A r \in cand :
                        \/ Dist(q, vecs[p]) < Dist(q, vecs[r])
                        \/ Dist(q, vecs[p]) = Dist(q, vecs[r]) /\ p <= r
       IN <<best>> \o Nearest(q, vecs, k - 1, taken \cup {best})

Min(a, b) == IF a < b THEN a ELSE b

target_ef(top_k) == Max(efSearchMin, Min(efSearchMax, top_k * efPerK))

TuneEf(ix, top_k) ==
  IF target_ef(top_k) > ix.ef THEN [ix EXCEPT !.ef = target_ef(top_k)] ELSE ix

\* mutant: the cosine is used as computed, without the clamp
cosine_Unclamped(dist) == 8 - dist

\* lines 225-230: cos = 1 - dist / 2, clamped to [-1, 1]; in eighths
cosine(dist) ==
  IF 8 - dist > 8 THEN 8
  ELSE IF 8 - dist < -8 THEN -8
  ELSE 8 - dist

\* line 231: (cosine + 1) / 2; in sixteenths
similarity_01(dist) == cosine(dist) + 8

\* mutant: a result is built for every label the index returns
RECURSIVE Results_NoGuard(_, _, _)
Results_NoGuard(st, q, labels) ==
  IF labels = <<>> THEN <<>>
  ELSE LET p == Head(labels)
       IN <<[pos |-> p, dist |-> Dist(q, st.index.vecs[p]),
             meta |-> IF p <= Len(st.metadata) THEN st.metadata[p]
                      ELSE [document_id |-> "", content |-> <<0, 0>>,
                            chunk_index |-> 0, total_chunks |-> 0],
             similarity_score |-> similarity_01(Dist(q, st.index.vecs[p]))]>>
            \o Results_NoGuard(st, q, Tail(labels))

\* lines 217-238: labels outside the metadata sequence are skipped
RECURSIVE Results(_, _, _)
Results(st, q, labels) ==
  IF labels = <<>> THEN <<>>
  ELSE LET p == Head(labels)
           rest == Results(st, q, Tail(labels))
       IN IF p <= Len(st.metadata)
          THEN <<[pos |-> p, dist |-> Dist(q, st.index.vecs[p]),
                  meta |-> st.metadata[p],
                  similarity_score |->
                    similarity_01(Dist(q, st.index.vecs[p]))]>> \o rest
          ELSE rest

\* mutant: no early return for a missing or empty index: line 215 then
\* dereferences None
search_NoEmptyGuard(st, dk, q, top_k) ==
  LET st1 == _reload_if_changed(st, dk)
  IN IF st1.index = NoIndex
     THEN [store |-> st1, value |-> <<>>, raised |-> TRUE]
     ELSE LET st2 == [st1 EXCEPT !.index = TuneEf(@, top_k)]
              labels == Nearest(q, st2.index.vecs,
                                Min(top_k, ntotal(st2.index)), {})
          IN [store |-> st2, value |-> Results(st2, q, labels),
              raised |-> FALSE]

search(st, dk, q, top_k) ==
  LET st1 == _reload_if_changed(st, dk)
  IN IF st1.index = NoIndex \/ ntotal(st1.index) = 0
     THEN [store |-> st1, value |-> <<>>, raised |-> FALSE]
     ELSE LET st2 == [st1 EXCEPT !.index = TuneEf(@, top_k)]
              labels == Nearest(q, st2.index.vecs,
                                Min(top_k, ntotal(st2.index)), {})
          IN [store |-> st2, value |-> Results(st2, q, labels),
              raised |-> FALSE]

\* ----------------------------------------------------------------- get_stats
get_stats(st, dk) ==
  LET st1 == _reload_if_changed(st, dk)
  IN [store |-> st1,
      value |-> [total_vectors |-> IF st1.index # NoIndex
                                   THEN ntotal(st1.index) ELSE 0,
                 dimension |-> st1.dimension,
                 total_documents |-> Cardinality(st1.document_info),
                 documents |-> st1.document_info]]

\* --------------------------------------------------------- get_document_info
get_document_info(st, dk, doc) ==
  LET st1 == _reload_if_changed(st, dk)
  IN [store |-> st1,
      value |-> {r \in st1.document_info : r.document_id = doc}]

\* ------------------------------------------------------------------ actions
\* the call that ran: its name, instance and arguments, whether it raised and
\* what it returned
Ret(op, s, args, raised, value) ==
  [op |-> op, store |-> s, args |-> args, raised |-> raised, value |-> value]

Init ==
  /\ store = [s \in Stores |-> NewStore]
  /\ constructed = [s \in Stores |-> FALSE]
  /\ disk = EmptyDisk
  /\ now = 0
  /\ adds = 0
  /\ faults = 0
  /\ completed = 0
  /\ last = Ret("none", 0, <<>>, FALSE, <<>>)

\* vector_store = FAISSVectorStore() at module import
Construct(s) ==
  /\ ~constructed[s]
  /\ constructed' = [constructed EXCEPT ![s] = TRUE]
  /\ store' = [store EXCEPT ![s] = _load_or_create(NewStore, disk)]
  /\ last' = Ret("init", s, <<>>, FALSE, <<>>)
  /\ UNCHANGED <<disk, now, adds, faults, completed>>

AddCall(s, nc, nv, dim, doc, failAt, partial) ==
  LET r == add_documents(store[s], disk, now, adds + 1, nc, nv, dim, doc,
                         failAt, partial)
  IN /\ constructed[s]
     /\ failAt = 0 => ~partial
     /\ store' = [store EXCEPT ![s] = r.store]
     /\ disk' = r.disk
     /\ now' = r.now
     /\ adds' = adds + 1
     /\ faults' = IF ~r.raised /\ failAt # 0 THEN faults + 1 ELSE faults
     /\ completed' = IF r.raised \/ r.disk = disk THEN completed
                     ELSE IF failAt = 0 THEN s ELSE 0
     /\ last' = Ret("add", s,
                     [nc |-> nc, nv |-> nv, dim |-> dim, document_id |-> doc,
                      failAt |-> failAt],
                     r.raised, <<>>)
     /\ UNCHANGED constructed

\* an upload handled by instance s: at most maxAdds calls in a behaviour, at
\* most maxFaults of them with a failing _save
AddWithin(s, maxAdds, maxFaults) ==
  /\ adds < maxAdds
  /\ \E nc \in ChunkCounts, dim \in Dims, doc \in DocIds,
        failAt \in 0..3, partial \in BOOLEAN :
       /\ failAt # 0 => faults < maxFaults
       /\ Rejects(store[s], nc, dim) => failAt = 0
       /\ AddCall(s, nc, nc, dim, doc, failAt, partial)

AddDocuments(s) == AddWithin(s, MaxAdds, MaxFaults)

AddDocumentsLong(s) == AddWithin(s, MaxAddsLong, MaxFaultsLong)

\* mutant: search persists the index after tuning efSearch
Search_Saves(s) ==
  \E q \in Queries, top_k \in TopKs :
    LET r == search(store[s], disk, q, top_k)
        w == IF r.store.index = NoIndex
             THEN [store |-> r.store, disk |-> disk, now |-> now]
             ELSE _save(r.store, disk, now, 0, FALSE)
    IN /\ constructed[s]
       /\ store' = [store EXCEPT ![s] = w.store]
       /\ disk' = w.disk
       /\ now' = w.now
       /\ last' = Ret("search", s, [top_k |-> top_k],
                       r.raised, r.value)
       /\ UNCHANGED <<constructed, adds, faults, completed>>

Search(s) ==
  \E q \in Queries, top_k \in TopKs :
    LET r == search(store[s], disk, q, top_k)
    IN /\ constructed[s]
       /\ store' = [store EXCEPT ![s] = r.store]
       /\ last' = Ret("search", s, [top_k |-> top_k],
                       r.raised, r.value)
       /\ UNCHANGED <<constructed, disk, now, adds, faults, completed>>

GetStats(s) ==
  LET r == get_stats(store[s], disk)
  IN /\ constructed[s]
     /\ store' = [store EXCEPT ![s] = r.store]
     /\ last' = Ret("get_stats", s, <<>>, FALSE, r.value)
     /\ UNCHANGED <<constructed, disk, now, adds, faults, completed>>

GetDocumentInfo(s) ==
  \E doc \in DocIds :
    LET r == get_document_info(store[s], disk, doc)
    IN /\ constructed[s]
       /\ store' = [store EXCEPT ![s] = r.store]
       /\ last' = Ret("get_document_info", s, [document_id |-> doc],
                       FALSE, r.value)
       /\ UNCHANGED <<constructed, disk, now, adds, faults, completed>>

Step(s) ==
  \/ Construct(s)
  \/ AddDocuments(s)
  \/ Search(s)
  \/ GetStats(s)
  \/ GetDocumentInfo(s)

\* the store class used through its whole interface, one instance alone on
\* the directory
NextOne == Step(Admin)

SpecOne == Init /\ [][NextOne]_vars

\* the same instance followed through longer runs
NextOneLong ==
  \/ Construct(Admin)
  \/ AddDocumentsLong(Admin)
  \/ Search(Admin)
  \/ GetStats(Admin)
  \/ GetDocumentInfo(Admin)

SpecOneLong == Init /\ [][NextOneLong]_vars

\* the deployed program: api/admin.py adds and lists, api/chat.py searches
\* and reports, each through its own instance on the shared directory
Next ==
  \/ Construct(Admin)
  \/ Construct(Chat)
  \/ AddDocuments(Admin)
  \/ GetStats(Admin)
  \/ Search(Chat)
  \/ GetStats(Chat)

Spec == Init /\ [][Next]_vars

\* several server processes, each with its own instance adding to the shared
\* directory, one call at a time
NextWriters ==
  \E s \in Stores :
    \/ Construct(s)
    \/ AddDocuments(s)
    \/ Search(s)
    \/ GetStats(s)

SpecWriters == Init /\ [][NextWriters]_vars

\* ------------------------------------------------- tasks of one process
\* add_documents is a coroutine that awaits nothing: its file writes are
\* blocking calls.  The event loop therefore runs a call from its first line
\* to its return before any other task of the process runs.  The call is
\* modelled in two steps, split where the index holds the new vectors and the
\* metadata sequence does not yet (after line 155), so that the state between
\* the two appends is a state of the model; while it lasts, last holds the
\* call in progress.
AddInProgress == last.op = "adding"

\* lines 134-155 done, lines 158-177 to come
VectorsAppended(st, n, nv, dim) ==
  [InitIndex(st, dim) EXCEPT !.index.vecs = @ \o Contents(n, nv)]

\* lines 158-174
MetadataAppended(st, n, nc, doc) ==
  [st EXCEPT !.metadata = @ \o ChunkMetadata(n, nc, doc),
             !.document_info = SetDocumentInfo(@, doc, nc)]

AddArgs(n, nc, nv, dim, doc, failAt, partial) ==
  [n |-> n, nc |-> nc, nv |-> nv, dim |-> dim, document_id |-> doc,
   failAt |-> failAt, partial |-> partial]

\* mutant: index.add is awaited, so a second call can start before the first
\* has appended its metadata
AddBegin_Suspends(s) ==
  /\ constructed[s]
  /\ adds < MaxAdds
  /\ \E nc \in ChunkCounts, dim \in Dims, doc \in DocIds,
        failAt \in 0..3, partial \in BOOLEAN :
       /\ failAt = 0 => ~partial
       /\ failAt # 0 => faults < MaxFaults
       /\ Rejects(store[s], nc, dim) => failAt = 0
       /\ store' = [store EXCEPT ![s] =
                      IF Rejects(store[s], nc, dim) THEN store[s]
                      ELSE VectorsAppended(store[s], adds + 1, nc, dim)]
       /\ last' = Ret(IF Rejects(store[s], nc, dim) THEN "add" ELSE "adding",
                       s, AddArgs(adds + 1, nc, nc, dim, doc, failAt, partial),
                       Rejects(store[s], nc, dim), <<>>)
       /\ adds' = adds + 1
       /\ UNCHANGED <<constructed, disk, now, faults, completed>>

\* a task's call of add_documents starts: no other call is in progress
AddBegin(s) ==
  /\ ~AddInProgress
  /\ constructed[s]
  /\ adds < MaxAdds
  /\ \E nc \in ChunkCounts, dim \in Dims, doc \in DocIds,
        failAt \in 0..3, partial \in BOOLEAN :
       /\ failAt = 0 => ~partial
       /\ failAt # 0 => faults < MaxFaults
       /\ Rejects(store[s], nc, dim) => failAt = 0
       /\ store' = [store EXCEPT ![s] =
                      IF Rejects(store[s], nc, dim) THEN store[s]
                      ELSE VectorsAppended(store[s], adds + 1, nc, dim)]
       /\ last' = Ret(IF Rejects(store[s], nc, dim) THEN "add" ELSE "adding",
                       s, AddArgs(adds + 1, nc, nc, dim, doc, failAt, partial),
                       Rejects(store[s], nc, dim), <<>>)
       /\ adds' = adds + 1
       /\ UNCHANGED <<constructed, disk, now, faults, completed>>

\* the call in progress runs to its return
AddEnd(s) ==
  /\ AddInProgress
  /\ last.store = s
  /\ LET a == last.args
         r == _save(MetadataAppended(store[s], a.n, a.nc, a.document_id),
                    disk, now, a.failAt, a.partial)
     IN /\ store' = [store EXCEPT ![s] = r.store]
        /\ disk' = r.disk
        /\ now' = r.now
        /\ faults' = IF a.failAt # 0 THEN faults + 1 ELSE faults
        /\ completed' = IF r.disk = disk THEN completed
                        ELSE IF a.failAt = 0 THEN s ELSE 0
        /\ last' = Ret("add", s, a, r.raised, <<>>)
        /\ UNCHANGED <<constructed, adds>>

\* the upload tasks of the admin process: each has awaited the chunks and the
\* embeddings of its document and calls add_documents when the loop runs it
NextTasks ==
  \/ Construct(Admin)
  \/ AddBegin(Admin)
  \/ AddEnd(Admin)

SpecTasks == Init /\ [][NextTasks]_vars

\* ------------------------------------------------ add_documents, any caller
\* add_documents as a method any caller may use: the chunk list and the
\* embeddings list of a call need not have one length (api/admin.py passes one
\* embedding per chunk)
AddAnyLengths(s) ==
  /\ adds < MaxAdds
  /\ \E nc \in ChunkCounts, nv \in ChunkCounts, dim \in Dims, doc \in DocIds,
        failAt \in 0..3, partial \in BOOLEAN :
       /\ failAt # 0 => faults < MaxFaults
       /\ Rejects(store[s], nv, dim) => failAt = 0
       /\ AddCall(s, nc, nv, dim, doc, failAt, partial)

NextCaller ==
  \/ Construct(Admin)
  \/ AddAnyLengths(Admin)
  \/ Search(Admin)
  \/ GetStats(Admin)

SpecCaller == Init /\ [][NextCaller]_vars

\* ================================================================ chunker
\* backend/app/services/llm_chunker.py, class LLMChunker.  A text is a
\* sequence of characters: "A" a capital letter, "." a sentence end, " " white
\* space.  A token is a piece of text: a space joins the character after it
\* (as byte-pair vocabularies do), every other character stands alone, and
\* decoding concatenates the pieces.
Chars == {"A", ".", " "}

RECURSIVE TextsOfLen(_)
TextsOfLen(n) ==
  IF n = 0 THEN {<<>>}
  ELSE {Append(t, c) : t \in TextsOfLen(n - 1), c \in Chars}

Texts == UNION {TextsOfLen(n) : n \in 0..MaxTextLen}

ChunkSizes == 0..MaxChunkSize          \* settings.chunk_size
ChunkOverlaps == -1..MaxChunkSize      \* settings.chunk_overlap
Filenames == {"f.txt", "g.txt"}

\* the pieces of a text; a long text is encoded by halves, cut where no space
\* is parted from the character it joins
RECURSIVE _encode_tokens(_)
_encode_tokens(text) ==
  IF text = <<>> THEN <<>>
  ELSE IF Len(text) = 1 THEN <<text>>
  ELSE IF Len(text) = 2 /\ text[1] = " " /\ text[2] # " " THEN <<text>>
  ELSE LET half == Len(text) \div 2
           cut == IF text[half] = " " /\ text[half + 1] # " "
                  THEN half + 1 ELSE half
       IN _encode_tokens(SubSeq(text, 1, cut))
            \o _encode_tokens(SubSeq(text, cut + 1, Len(text)))

RECURSIVE _decode_tokens(_)
_decode_tokens(token_ids) ==
  IF token_ids = <<>> THEN <<>>
  ELSE IF Len(token_ids) = 1 THEN token_ids[1]
  ELSE LET half == Len(token_ids) \div 2
       IN _decode_tokens(SubSeq(token_ids, 1, half))
            \o _decode_tokens(SubSeq(token_ids, half + 1, Len(token_ids)))

count_tokens(text) == Len(_encode_tokens(text))

\* str.strip(): the text without its leading and trailing white space
strip(text) ==
  LET solid == {i \in DOMAIN text : text[i] # " "}
  IN IF solid = {} THEN <<>>
     ELSE SubSeq(text,
                 CHOOSE i \in solid : \A j \in solid : i <= j,
                 CHOOSE i \in solid : \A j \in solid : i >= j)

\* seq[start:end] of Python, start and end counted from 0
Slice(seq, start, end) == SubSeq(seq, start + 1, Min(end, Len(seq)))

\* range(0, n, step) of Python, step >= 1
Range(n, step) == [k \in 1..((n + step - 1) \div step) |-> (k - 1) * step]

\* mutant: the step is one more than the window
NaiveWindows_StepPastWindow(text, chunk_size, chunk_overlap) ==
  LET tokens == _encode_tokens(text)
      window_size == Max(chunk_size, 1)
      starts == Range(Len(tokens), window_size + 1)
  IN [k \in DOMAIN starts |->
        [start |-> starts[k],
         end |-> Min(starts[k] + window_size, Len(tokens)),
         chunk_text |->
           _decode_tokens(Slice(tokens, starts[k], starts[k] + window_size))]]

\* _naive_split, lines 197-205: one record per turn of the loop
NaiveWindows(text, chunk_size, chunk_overlap) ==
  LET tokens == _encode_tokens(text)
      window_size == Max(chunk_size, 1)
      step_size == Max(chunk_size - chunk_overlap, 1)
      starts == Range(Len(tokens), step_size)
  IN [k \in DOMAIN starts |->
        [start |-> starts[k],
         end |-> Min(starts[k] + window_size, Len(tokens)),
         chunk_text |->
           _decode_tokens(Slice(tokens, starts[k], starts[k] + window_size))]]

\* the turns of the loop that append a chunk (line 206)
Emitted(windows) == SelectSeq(windows, LAMBDA w : strip(w.chunk_text) # <<>>)

_naive_split(text, chunk_size, chunk_overlap) ==
  LET emitted == Emitted(NaiveWindows(text, chunk_size, chunk_overlap))
  IN [k \in DOMAIN emitted |-> strip(emitted[k].chunk_text)]

_token_windows(text, window_tokens, overlap_tokens) ==
  LET tokens == _encode_tokens(text)
      window == Max(window_tokens, 1)
      step == Max(window_tokens - overlap_tokens, 1)
      starts == Range(Len(tokens), step)
  IN [k \in DOMAIN starts |->
        _decode_tokens(Slice(tokens, starts[k], starts[k] + window))]

\* re.split(r"(?<=[.!?])\s+(?=[A-Z])", text), line 219: the text is cut at
\* every run of white space that follows a sentence end and precedes a capital
SentenceEnds(text) ==
  {i \in DOMAIN text :
     /\ text[i] = "."
     /\ \E j \in (i + 2)..Len(text) :
          /\ text[j] = "A"
          /\ \A k \in (i + 1)..(j - 1) : text[k] = " "}

RECURSIVE re_split(_)
re_split(text) ==
  IF SentenceEnds(text) = {} THEN <<text>>
  ELSE LET i == CHOOSE e \in SentenceEnds(text) :
                  \A f \in SentenceEnds(text) : e <= f
           j == CHOOSE c \in (i + 2)..Len(text) :
                  /\ text[c] = "A"
                  /\ \A k \in (i + 1)..(c - 1) : text[k] = " "
       IN <<SubSeq(text, 1, i)>> \o re_split(SubSeq(text, j, Len(text)))

\* line 220: the pieces stripped, the empty ones left out
Sentences(text) ==
  LET pieces == SelectSeq(re_split(text), LAMBDA p : strip(p) # <<>>)
  IN [k \in DOMAIN pieces |-> strip(pieces[k])]

\* " ".join(sentences)
RECURSIVE Join(_)
Join(sentences) ==
  IF sentences = <<>> THEN <<>>
  ELSE IF Len(sentences) = 1 THEN sentences[1]
  ELSE sentences[1] \o <<" ">> \o Join(Tail(sentences))

RECURSIVE SumTokens(_)
SumTokens(sentences) ==
  IF sentences = <<>> THEN 0
  ELSE count_tokens(Head(sentences)) + SumTokens(Tail(sentences))

\* seq[-n:] of Python, n >= 1
LastN(seq, n) == SubSeq(seq, Max(1, Len(seq) - n + 1), Len(seq))

\* lines 228-245: the loop over the sentences; groups are the sentence lists
\* finalized so far, cur the fields current_sentences and current_tokens
RECURSIVE Accumulate(_, _, _, _)
Accumulate(sentences, chunk_size, groups, cur) ==
  IF sentences = <<>> THEN [groups |-> groups, cur |-> cur]
  ELSE
    LET sentence == Head(sentences)
        sentence_tokens == count_tokens(sentence)
        overflow == /\ cur.tokens + sentence_tokens > chunk_size
                    /\ cur.sentences # <<>>
        overlap_sentence_count == Max(2, Len(cur.sentences) \div 4)
        seeded == LastN(cur.sentences, overlap_sentence_count)
        groups1 == IF overflow THEN Append(groups, cur.sentences) ELSE groups
        cur1 == IF overflow
                THEN [sentences |-> seeded, tokens |-> SumTokens(seeded)]
                ELSE cur
    IN IF sentence_tokens <= 0
       THEN Accumulate(Tail(sentences), chunk_size, groups, cur)
       ELSE Accumulate(Tail(sentences), chunk_size, groups1,
                       [sentences |-> Append(cur1.sentences, sentence),
                        tokens |-> cur1.tokens + sentence_tokens])

\* the sentence lists of the chunks the split builds, in order: those
\* finalized on overflow, then what is left when the sentences run out
SentenceGroups(text, chunk_size) ==
  LET r == Accumulate(Sentences(text), chunk_size, <<>>,
                      [sentences |-> <<>>, tokens |-> 0])
  IN IF r.cur.sentences # <<>>
     THEN Append(r.groups, r.cur.sentences)
     ELSE r.groups

\* lines 235-237 and 247-250: a chunk is the join of its sentences, appended
\* when it is not blank
_sentence_aware_split(text, chunk_size) ==
  LET groups == SelectSeq(SentenceGroups(text, chunk_size),
                          LAMBDA g : strip(Join(g)) # <<>>)
  IN [k \in DOMAIN groups |->
        IF k = Len(groups) THEN strip(Join(groups[k])) ELSE Join(groups[k])]

\* ------------------------------------------------------- LLM-assisted path
\* an element of the list the collaborator's JSON holds: a string, or a value
\* of another JSON type (a number, an object, null)
Str(t) == [isstr |-> TRUE, s |-> t]
NonStr == [isstr |-> FALSE, s |-> <<>>]

Strs(texts) == [k \in DOMAIN texts |-> Str(texts[k])]

\* what ollama_client.generate and json.loads make of one request: generate
\* raises ("error"), json.loads raises ("unparseable"), the JSON is not a list
\* ("not_list"), or it is the list of items
Failure(kind) == [kind |-> kind, items |-> <<>>]
ListOf(items) == [kind |-> "list", items |-> items]

\* the window was small enough: no request was made for it
Unasked == Failure("unasked")

Responses ==
  { Failure("error"), Failure("unparseable"), Failure("not_list"),
    ListOf(<<>>),
    ListOf(<<Str(<<"A">>), NonStr>>),
    ListOf(<<Str(<<"A">>)>>),
    ListOf(<<Str(<<" ", "A">>), Str(<<".">>)>>),
    ListOf(<<Str(<<" ">>)>>),
    ListOf(<<Str(<<".">>), Str(<<"A">>), Str(<<".">>)>>) }

\* _semantic_split, lines 98-139.  Line 105 divides by chunk_size outside the
\* try block; inside it every failure is caught and answered by _naive_split
_semantic_split(text, chunk_size, chunk_overlap, response) ==
  IF count_tokens(text) <= chunk_size
  THEN [value |-> <<Str(text)>>, raised |-> FALSE]
  ELSE IF chunk_size = 0
  THEN [value |-> <<>>, raised |-> TRUE]
  ELSE IF response.kind = "list" /\ Len(response.items) > 0
  THEN [value |-> response.items, raised |-> FALSE]
  ELSE [value |-> Strs(_naive_split(text, chunk_size, chunk_overlap)),
        raised |-> FALSE]

\* hash(s) of a string: a number that the content determines
CharCode(c) == IF c = "A" THEN 1 ELSE IF c = "." THEN 2 ELSE 3

RECURSIVE hash(_)
hash(s) ==
  IF s = <<>> THEN 1
  ELSE 4 * hash(SubSeq(s, 1, Len(s) - 1)) + CharCode(s[Len(s)])

\* mutant: a section is kept whether or not its content was seen before
RECURSIVE Merge_NoDedup(_, _, _)
Merge_NoDedup(parts, seen, merged) ==
  IF parts = <<>> THEN [seen |-> seen, merged |-> merged, raised |-> FALSE]
  ELSE IF ~Head(parts).isstr
  THEN [seen |-> seen, merged |-> merged, raised |-> TRUE]
  ELSE LET s == strip(Head(parts).s)
       IN IF s = <<>>
          THEN Merge_NoDedup(Tail(parts), seen, merged)
          ELSE Merge_NoDedup(Tail(parts), seen \cup {hash(s)},
                             Append(merged, s))

\* lines 177-185: the loop over the parts of one window; p.strip() raises
\* AttributeError when p is not a string
RECURSIVE Merge(_, _, _)
Merge(parts, seen, merged) ==
  IF parts = <<>> THEN [seen |-> seen, merged |-> merged, raised |-> FALSE]
  ELSE IF ~Head(parts).isstr
  THEN [seen |-> seen, merged |-> merged, raised |-> TRUE]
  ELSE LET s == strip(Head(parts).s)
       IN IF s = <<>> \/ hash(s) \in seen
          THEN Merge(Tail(parts), seen, merged)
          ELSE Merge(Tail(parts), seen \cup {hash(s)}, Append(merged, s))

\* lines 174-186: the loop over the windows
RECURSIVE MergeWindows(_, _, _, _, _, _)
MergeWindows(windows, responses, chunk_size, chunk_overlap, seen, merged) ==
  IF windows = <<>> THEN [value |-> merged, raised |-> FALSE]
  ELSE LET parts == _semantic_split(Head(windows), chunk_size, chunk_overlap,
                                    Head(responses))
           m == Merge(parts.value, seen, merged)
       IN IF parts.raised \/ m.raised
          THEN [value |-> <<>>, raised |-> TRUE]
          ELSE MergeWindows(Tail(windows), Tail(responses), chunk_size,
                            chunk_overlap, m.seen, m.merged)

\* the windows of line 169
MacroWindows(text) ==
  _token_windows(text, llm_window_tokens, llm_window_overlap_tokens)

\* responses[k] is the collaborator's answer to the request for window k
_semantic_split_windowed(text, chunk_size, chunk_overlap, responses) ==
  MergeWindows(MacroWindows(text), responses, chunk_size, chunk_overlap,
               {}, <<>>)

\* mutant: chunk_index counts from one
ChunkDicts_IndexFromOne(chunks, filename) ==
  [idx \in DOMAIN chunks |->
     [content |-> chunks[idx], chunk_index |-> idx,
      filename |-> filename, total_chunks |-> Len(chunks)]]

\* lines 76-86
ChunkDicts(chunks, filename) ==
  [idx \in DOMAIN chunks |->
     [content |-> chunks[idx], chunk_index |-> idx - 1,
      filename |-> filename, total_chunks |-> Len(chunks)]]

\* chunk_document, lines 57-86, under the settings use_llm_chunking and
\* use_sentence_aware_split
chunk_document(text, filename, chunk_size, chunk_overlap, use_llm_chunking, use_sentence_aware_split, responses) ==
  IF count_tokens(text) <= chunk_size
  THEN [value |-> <<[content |-> text, chunk_index |-> 0,
                     filename |-> filename, total_chunks |-> 1]>>,
        raised |-> FALSE]
  ELSE IF use_llm_chunking
  THEN LET r == _semantic_split_windowed(text, chunk_size, chunk_overlap,
                                         responses)
       IN [value |-> ChunkDicts(r.value, filename), raised |-> r.raised]
  ELSE [value |-> ChunkDicts(IF use_sentence_aware_split
                             THEN _sentence_aware_split(text, chunk_size)
                             ELSE _naive_split(text, chunk_size, chunk_overlap),
                             filename),
        raised |-> FALSE]

\* ---------------------------------------------------------- chunker calls
\* the chunker keeps nothing between calls: a behaviour is one call, on any
\* text and any settings
ChunkerArgs(text, chunk_size, chunk_overlap) ==
  [text |-> text, chunk_size |-> chunk_size, chunk_overlap |-> chunk_overlap]

\* every text with every chunk_size and chunk_overlap
SmallInputs == Texts \X ChunkSizes \X ChunkOverlaps

\* a text of 2500 tokens with chunk_size 1000 and chunk_overlap 200
ScenarioA == <<[i \in 1..2500 |-> "A"], 1000, 200>>

NaiveSplitOf(inputs) ==
  /\ last.op = "none"
  /\ \E in \in inputs :
       /\ last' = Ret("_naive_split", 0,
                      ChunkerArgs(in[1], in[2], in[3]), FALSE,
                      _naive_split(in[1], in[2], in[3]))
       /\ UNCHANGED <<store, constructed, disk, now, adds, faults, completed>>

NaiveSplit == NaiveSplitOf(SmallInputs)

NaiveSplitLong == NaiveSplitOf(SmallInputs \cup {ScenarioA})

TokenWindows ==
  /\ last.op = "none"
  /\ \E text \in Texts, window_tokens \in ChunkSizes,
        overlap_tokens \in ChunkOverlaps :
       /\ last' = Ret("_token_windows", 0,
                      ChunkerArgs(text, window_tokens, overlap_tokens), FALSE,
                      _token_windows(text, window_tokens, overlap_tokens))
       /\ UNCHANGED <<store, constructed, disk, now, adds, faults, completed>>

SentenceAwareSplit ==
  /\ last.op = "none"
  /\ \E text \in Texts, chunk_size \in ChunkSizes, chunk_overlap \in ChunkOverlaps :
       /\ last' = Ret("_sentence_aware_split", 0,
                      ChunkerArgs(text, chunk_size, chunk_overlap), FALSE,
                      _sentence_aware_split(text, chunk_size))
       /\ UNCHANGED <<store, constructed, disk, now, adds, faults, completed>>

ChunkDocumentArgs(text, filename, chunk_size, chunk_overlap, use_llm_chunking, responses) ==
  [text |-> text, filename |-> filename, chunk_size |-> chunk_size,
   chunk_overlap |-> chunk_overlap, use_llm_chunking |-> use_llm_chunking,
   responses |-> responses]

\* settings.use_llm_chunking off.  Settings declares no
\* use_sentence_aware_split, so line 71 reads the default
ChunkDocument ==
  /\ last.op = "none"
  /\ \E text \in Texts, filename \in Filenames, chunk_size \in ChunkSizes,
        chunk_overlap \in ChunkOverlaps :
       LET r == chunk_document(text, filename, chunk_size, chunk_overlap,
                               FALSE, TRUE, <<>>)
       IN /\ last' = Ret("chunk_document", 0,
                         ChunkDocumentArgs(text, filename, chunk_size,
                                           chunk_overlap, FALSE, <<>>),
                         r.raised, r.value)
          /\ UNCHANGED <<store, constructed, disk, now, adds, faults, completed>>

\* the sequences whose k-th element is drawn from options[k]
RECURSIVE SeqsOver(_)
SeqsOver(options) ==
  IF options = <<>> THEN {<<>>}
  ELSE {<<h>> \o t : h \in Head(options), t \in SeqsOver(Tail(options))}

\* a request is made for a window of more than chunk_size tokens (lines 101
\* and 126)
Asked(window, chunk_size) ==
  count_tokens(window) > chunk_size /\ chunk_size # 0

\* every answer the collaborator can give to the requests of one call
ResponsesFor(text, chunk_size) ==
  LET windows == MacroWindows(text)
  IN SeqsOver([k \in DOMAIN windows |->
                 IF Asked(windows[k], chunk_size)
                 THEN Responses ELSE {Unasked}])

\* the calls on the LLM-assisted path: every text but the longest ones, under
\* one filename, with and without an overlap of the fallback split
LlmTexts == UNION {TextsOfLen(n) : n \in 0..(MaxTextLen - 1)}
LlmFilename == "f.txt"
FallbackOverlaps == {0, 1}

\* settings.use_llm_chunking on
ChunkDocumentLlm ==
  /\ last.op = "none"
  /\ \E text \in LlmTexts, chunk_size \in ChunkSizes,
        chunk_overlap \in FallbackOverlaps :
       \E responses \in ResponsesFor(text, chunk_size) :
         LET r == chunk_document(text, LlmFilename, chunk_size, chunk_overlap,
                                 TRUE, TRUE, responses)
         IN /\ last' = Ret("chunk_document", 0,
                           ChunkDocumentArgs(text, LlmFilename, chunk_size,
                                             chunk_overlap, TRUE, responses),
                           r.raised, r.value)
            /\ UNCHANGED <<store, constructed, disk, now, adds, faults, completed>>

NextChunker ==
  \/ NaiveSplit
  \/ TokenWindows
  \/ SentenceAwareSplit
  \/ ChunkDocument

SpecChunker == Init /\ [][NextChunker]_vars

\* chunk_document on each of its paths: the single chunk, the LLM-assisted
\* path with every answer of the collaborator, the deterministic path
NextChunkDocument ==
  \/ ChunkDocument
  \/ ChunkDocumentLlm

SpecChunkDocument == Init /\ [][NextChunkDocument]_vars

\* the fixed-window split alone, on the small texts and on the long one
NextFixedWindow == NaiveSplitLong

SpecFixedWindow == Init /\ [][NextFixedWindow]_vars

\* ------------------------------------------------ the windowing loops
\* The loops of _naive_split (lines 200-207) and _token_windows (lines
\* 155-160), one turn per step: for start in range(0, len(tokens), step).
\* While a loop runs, last holds it: the function and its arguments in args,
\* and in loop the locals of the call: tokens (lines 194 and 149), the value
\* of start, the number of turns taken and the chunks appended so far.

\* mutant: the step is forced to at least 0, not to at least 1
StepOf_AtLeastZero(size, overlap) == Max(size - overlap, 0)

\* lines 198 and 153: step = max(size - overlap, 1)
StepOf(size, overlap) == Max(size - overlap, 1)

LoopFns == {"_naive_split", "_token_windows"}

\* the texts the loops are run on
LoopTexts == UNION {TextsOfLen(n) : n \in 0..(MaxTextLen - 2)}

LoopArgs(fn, text, size, overlap) ==
  [fn |-> fn, text |-> text, chunk_size |-> size, chunk_overlap |-> overlap]

LoopState(tokens, start, turns, chunks) ==
  [tokens |-> tokens, start |-> start, turns |-> turns, chunks |-> chunks]

\* the record of a loop that runs: nothing is returned yet
Running(a, state) ==
  [op |-> "loop", args |-> a, loop |-> state]

LoopRunning == last.op = "loop"

\* the call starts: an empty token list returns at once (lines 195-196 and
\* 150-151), any other enters the loop with start = 0
LoopBegin ==
  /\ last.op = "none"
  /\ \E fn \in LoopFns, text \in LoopTexts, size \in ChunkSizes,
        overlap \in ChunkOverlaps :
       /\ last' = IF _encode_tokens(text) = <<>>
                  THEN Ret(fn, 0, LoopArgs(fn, text, size, overlap), FALSE, <<>>)
                  ELSE Running(LoopArgs(fn, text, size, overlap),
                               LoopState(_encode_tokens(text), 0, 0, <<>>))
       /\ UNCHANGED <<store, constructed, disk, now, adds, faults, completed>>

\* one turn: the tokens of the window at start are cut; an empty cut is
\* skipped (lines 203-204 and 158-159), any other is decoded and appended
\* (_naive_split appends it stripped, and only when it is not blank); range
\* yields the next start
LoopTurn ==
  /\ LoopRunning
  /\ last.loop.start < Len(last.loop.tokens)
  /\ \E chunk_tokens \in {Slice(last.loop.tokens, last.loop.start,
                                last.loop.start + Max(last.args.chunk_size, 1))} :
     \E chunk_text \in {_decode_tokens(chunk_tokens)} :
       LET a == last.args
           v == last.loop
           chunks == IF chunk_tokens = <<>> THEN v.chunks
                     ELSE IF a.fn = "_token_windows"
                     THEN Append(v.chunks, chunk_text)
                     ELSE IF strip(chunk_text) # <<>>
                     THEN Append(v.chunks, strip(chunk_text))
                     ELSE v.chunks
       IN last' = Running(a,
                    LoopState(v.tokens,
                              v.start + StepOf(a.chunk_size, a.chunk_overlap),
                              v.turns + 1, chunks))
  /\ UNCHANGED <<store, constructed, disk, now, adds, faults, completed>>

\* range is exhausted: the function returns its chunks
LoopEnd ==
  /\ LoopRunning
  /\ last.loop.start >= Len(last.loop.tokens)
  /\ last' = Ret(last.args.fn, 0, last.args, FALSE, last.loop.chunks)
  /\ UNCHANGED <<store, constructed, disk, now, adds, faults, completed>>

NextLoops ==
  \/ LoopBegin
  \/ LoopTurn
  \/ LoopEnd

\* the loop is sequential code of one call: once entered it keeps running
SpecLoops ==
  Init /\ [][NextLoops]_vars /\ WF_vars(LoopTurn) /\ WF_vars(LoopEnd)

\* ------------------------------------------------------------ vocabulary
ReadOps == {"search", "get_stats", "get_document_info"}

\* the step is a read call of instance s (every call records itself in last)
ReadStep(s) == last'.op \in ReadOps /\ last'.store = s

RECURSIVE SumChunkCount(_)
SumChunkCount(info) ==
  IF info = {} THEN 0
  ELSE LET r == CHOOSE x \in info : TRUE
       IN r.chunk_count + SumChunkCount(info \ {r})

IsPrefix(a, b) == Len(a) <= Len(b) /\ SubSeq(b, 1, Len(a)) = a

\* C1: in every state reached by calls made one at a time on one instance, the
\* in-memory metadata sequence is as long as the in-memory index has vectors.
C1_MetadataLenEqualsVectorCount ==
  \A s \in Stores : Len(store[s].metadata) = ntotal(store[s].index)

\* C2: the chunk_count values of the in-memory registry sum to the length of
\* the in-memory metadata sequence, also when a document_id is added twice.
C2_ChunkCountsSumToMetadataLen ==
  \A s \in Stores :
    SumChunkCount(store[s].document_info) = Len(store[s].metadata)

C4_DimensionNeverChanges ==
  [][\A s \in Stores :
       store[s].dimension # NoneD
         => store'[s].dimension = store[s].dimension]_vars

\* C5: every result of search carries the chunk that was passed to add
\* together with the vector found at the result's index position.
C5_SearchReturnsChunkOfVector ==
  last.op = "search" =>
    \A i \in 1..Len(last.value) :
      LET r == last.value[i]
      IN /\ r.meta.content = store[last.store].index.vecs[r.pos]
         /\ r.meta.chunk_index = r.meta.content[2] - 1

\* what the three files hold: their contents when all of them can be read
\* (no registry file: no registry entries), nothing otherwise
OnDisk(dk) ==
  IF LoadSucceeds(dk)
  THEN [index |-> dk.index_path.data, metadata |-> dk.metadata_path.data,
        document_info |-> IF exists(dk.doc_info_path)
                          THEN dk.doc_info_path.data ELSE {}]
  ELSE [index |-> NoIndex, metadata |-> <<>>, document_info |-> {}]

\* the in-memory index, metadata sequence and registry of st are those of dk
HoldsDiskState(st, dk) ==
  /\ st.index.d = OnDisk(dk).index.d
  /\ st.index.vecs = OnDisk(dk).index.vecs
  /\ st.metadata = OnDisk(dk).metadata
  /\ st.document_info = OnDisk(dk).document_info

\* a file is newer than recorded, or present with no recorded time
Stale(st, dk) == mtime_became_available(st, dk) \/ changed_after(st, dk)

\* C6: a read that finds a file newer than recorded, or present without a
\* recorded time, leaves the instance holding exactly what is on disk: nothing
\* of its previous index, metadata sequence or registry survives.
C6_StaleReadReplacesWholeState ==
  [][\A s \in Stores :
       (ReadStep(s) /\ Stale(store[s], disk))
         => HoldsDiskState(store'[s], disk)]_vars

\* C7: when another instance has completed an add (all three files saved) and
\* nothing was written since, a read answers from a state equal to what that
\* instance persisted.
C7_ReaderSeesCompletedWrite ==
  (last.op \in ReadOps /\ completed # 0 /\ completed # last.store) =>
    /\ LoadSucceeds(disk)
    /\ HoldsDiskState(store[last.store], disk)
    /\ store[last.store].dimension = disk.index_path.data.d
    /\ last.op = "get_stats" =>
         /\ last.value.total_vectors = ntotal(disk.index_path.data)
         /\ last.value.documents = disk.doc_info_path.data
    /\ last.op = "search" =>
         \A i \in 1..Len(last.value) :
           last.value[i].meta = disk.metadata_path.data[last.value[i].pos]

\* C7 witness: api/chat.py searches after the second add of api/admin.py has
\* completed and gets a chunk of that add
C7_Witness ==
  /\ last.op = "search"
  /\ last.store = Chat
  /\ completed = Admin
  /\ adds = 2
  /\ Len(last.value) > 0
  /\ last.value[1].meta.content[1] = 2

\* the metadata sequence metadata.pkl holds (none while the file is absent)
MetadataOnDisk(dk) == dk.metadata_path.data

\* C8: the persisted metadata sequence only grows by appending: whatever
\* instance adds, the sequence on disk before the add is a prefix of the
\* sequence on disk after it.
C8_PersistedMetadataOnlyAppended ==
  [][(last'.op = "add"
       /\ disk.metadata_path.state # "corrupt"
       /\ disk'.metadata_path.state # "corrupt")
      => IsPrefix(MetadataOnDisk(disk), MetadataOnDisk(disk'))]_vars

\* the step runs _load on instance s: at construction when faiss.index and
\* metadata.pkl exist, in a read when _reload_if_changed decides to reload
LoadStep(s) ==
  \/ ReadStep(s) /\ Reloads(store[s], disk)
  \/ /\ last'.op = "init"
     /\ last'.store = s
     /\ exists(disk.index_path)
     /\ exists(disk.metadata_path)

\* C9: a load that fails does not reach the caller and leaves the instance
\* empty: no index, no metadata, no registry entry, no dimension; get_stats
\* then reports zero vectors, zero documents and no dimension.
C9_FailedLoadLeavesEmptyState ==
  [][\A s \in Stores :
       (LoadStep(s) /\ ~LoadSucceeds(disk))
         => /\ ~last'.raised
            /\ store'[s].index = NoIndex
            /\ store'[s].metadata = <<>>
            /\ store'[s].document_info = {}
            /\ store'[s].dimension = NoneD
            /\ last'.op = "get_stats" =>
                 /\ last'.value.total_vectors = 0
                 /\ last'.value.total_documents = 0
                 /\ last'.value.dimension = NoneD]_vars

\* C10: an add whose _save fails at any of the three writes returns without
\* an error, and the instance's index, metadata sequence and registry hold the
\* chunks of that add.
C10_FailedSaveIsSilent ==
  [][\A s \in Stores :
       ( /\ last'.op = "add"
         /\ last'.store = s
         /\ last'.args.failAt # 0 )
       => /\ ~last'.raised
          /\ store'[s].index.vecs =
               store[s].index.vecs \o Contents(adds', last'.args.nv)
          /\ store'[s].metadata =
               store[s].metadata
                 \o ChunkMetadata(adds', last'.args.nc, last'.args.document_id)
          /\ [document_id |-> last'.args.document_id,
              chunk_count |-> last'.args.nc] \in store'[s].document_info]_vars

\* C10 witness: the first add returned normally, holds its chunk in memory,
\* and left no readable metadata.pkl behind
C10_Witness ==
  /\ last.op = "add"
  /\ ~last.raised
  /\ last.args.failAt = 2
  /\ Len(store[last.store].metadata) > 0
  /\ ntotal(store[last.store].index) = Len(store[last.store].metadata)
  /\ disk.metadata_path.state # "ok"

\* C11: a search that finds the store without an index, or with an index of
\* zero vectors, returns the empty sequence and does not raise, whatever the
\* query and top_k.
C11_EmptyStoreSearchReturnsEmpty ==
  ( /\ last.op = "search"
    /\ \/ store[last.store].index = NoIndex
       \/ ntotal(store[last.store].index) = 0 )
  => /\ ~last.raised
     /\ last.value = <<>>

\* C11 witness: a search answered with no index in memory although the index
\* files exist (the load of an unreadable file left the instance empty)
C11_Witness ==
  /\ last.op = "search"
  /\ store[last.store].index = NoIndex
  /\ exists(disk.index_path)
  /\ exists(disk.metadata_path)
  /\ ~last.raised
  /\ last.value = <<>>

\* the results are in order of non-increasing similarity score
NonIncreasingScores(res) ==
  \A i \in 1..Len(res) : \A j \in i..Len(res) :
    res[i].similarity_score >= res[j].similarity_score

\* C12: search returns at most min(top_k, total_vectors) results; the index
\* of the model finds every vector, so it returns exactly that many, in order
\* of non-increasing similarity score.
C12_ResultCountAndOrder ==
  last.op = "search" =>
    LET n == ntotal(store[last.store].index)
    IN /\ Len(last.value) <= Min(last.args.top_k, n)
       /\ Len(last.value) = Min(last.args.top_k, n)
       /\ NonIncreasingScores(last.value)

\* what remains of C12 when the count is only bounded from above
C12_AtMostAndOrdered ==
  last.op = "search" =>
    /\ Len(last.value)
         <= Min(last.args.top_k, ntotal(store[last.store].index))
    /\ NonIncreasingScores(last.value)

Clamp(x, lo, hi) == IF x < lo THEN lo ELSE IF x > hi THEN hi ELSE x

\* C13: every similarity score returned by search is in [0, 1] (0..16
\* sixteenths) and is ((clamp of 1 - d/2 to [-1, 1]) + 1) / 2 of the reported
\* distance d: distances above 4 (16 quarters) give 0, negative ones give 1.
C13_ScoreInUnitInterval ==
  last.op = "search" =>
    \A i \in 1..Len(last.value) :
      LET r == last.value[i]
      IN /\ r.similarity_score >= 0
         /\ r.similarity_score <= 16
         /\ r.similarity_score = Clamp(8 - r.dist, -8, 8) + 8
         /\ r.dist > 16 => r.similarity_score = 0
         /\ r.dist < 0 => r.similarity_score = 16

\* C13 witness: one search returned a vector reported farther than 4 and a
\* vector reported at a negative distance
C13_Witness ==
  /\ last.op = "search"
  /\ \E i \in 1..Len(last.value) :
       last.value[i].dist > 16 /\ last.value[i].similarity_score = 0
  /\ \E i \in 1..Len(last.value) :
       last.value[i].dist < 0 /\ last.value[i].similarity_score = 16

\* C14: the efSearch of an instance's index never decreases, and a search
\* leaves it at the larger of its previous value and
\* clamp(32..512, top_k * 32).
C14_EfSearchNeverDecreases ==
  [][\A s \in Stores :
       (store[s].index # NoIndex /\ store'[s].index # NoIndex)
       => /\ store'[s].index.ef >= store[s].index.ef
          /\ (last'.op = "search" /\ last'.store = s)
               => store'[s].index.ef =
                    Max(store[s].index.ef,
                        Clamp(last'.args.top_k * 32, 32, 512))]_vars

\* what remains of C14 within a search that does not reload
C14_SearchWithoutReloadTunes ==
  [][\A s \in Stores :
       ( /\ last'.op = "search"
         /\ last'.store = s
         /\ store[s].index # NoIndex
         /\ ~Reloads(store[s], disk) )
       => store'[s].index.ef =
            Max(store[s].index.ef,
                Clamp(last'.args.top_k * 32, 32, 512))]_vars

\* C15: what a load leaves in memory is decided by the files alone: the
\* vector count, the document count and the metadata sequence after a load are
\* those a load of the same files into a new instance gives.
C15_LoadIsIdempotent ==
  [][\A s \in Stores :
       LoadStep(s) =>
         LET fresh == _load(NewStore, disk)
         IN /\ ntotal(store'[s].index) = ntotal(fresh.index)
            /\ Cardinality(store'[s].document_info)
                 = Cardinality(fresh.document_info)
            /\ store'[s].metadata = fresh.metadata]_vars

\* the start offsets of a sequence of windows
Starts(windows) == [k \in DOMAIN windows |-> windows[k].start]

\* C16: fixed-window splitting of n tokens forms windows that start at
\* 0, step, 2*step, ... with step = max(chunk_size - chunk_overlap, 1), one
\* for every such offset below n; for n = 2500, chunk_size = 1000 and
\* chunk_overlap = 200 the windows start at 0, 800, 1600: 3 chunks.
C16_FixedWindowOffsets ==
  last.op = "_naive_split" =>
    LET a == last.args
        n == count_tokens(a.text)
        step == Max(a.chunk_size - a.chunk_overlap, 1)
        starts == Starts(NaiveWindows(a.text, a.chunk_size, a.chunk_overlap))
    IN /\ \A k \in DOMAIN starts : starts[k] = (k - 1) * step
       /\ (Len(starts) - 1) * step < n
       /\ n <= Len(starts) * step
       /\ (n = 2500 /\ a.chunk_size = 1000 /\ a.chunk_overlap = 200)
            => /\ starts = <<0, 800, 1600>>
               /\ Len(last.value) = 3

\* what remains of C16 without the scenario: a window at every multiple of
\* step below n, and no other
C16_OffsetsAreMultiplesOfStep ==
  last.op = "_naive_split" =>
    LET a == last.args
        n == count_tokens(a.text)
        step == Max(a.chunk_size - a.chunk_overlap, 1)
        starts == Starts(NaiveWindows(a.text, a.chunk_size, a.chunk_overlap))
    IN /\ \A k \in DOMAIN starts : starts[k] = (k - 1) * step
       /\ (Len(starts) - 1) * step < n
       /\ n <= Len(starts) * step

\* token position p (counted from 0) lies in one of the windows
Covered(p, windows) ==
  \E k \in DOMAIN windows : windows[k].start <= p /\ p < windows[k].end

\* C17 as stated: with step_size <= window_size every token position lies in
\* a window for which the split emits a chunk.
C17_EveryPositionInEmittedWindow ==
  last.op = "_naive_split" =>
    LET a == last.args
        emitted == Emitted(NaiveWindows(a.text, a.chunk_size, a.chunk_overlap))
    IN Max(a.chunk_size - a.chunk_overlap, 1) <= Max(a.chunk_size, 1)
       => \A p \in 0..(count_tokens(a.text) - 1) : Covered(p, emitted)

\* C17 amended: with step_size <= window_size every token position lies in a
\* window the split forms, and every position whose token is not white space
\* alone lies in a window for which a chunk is emitted: the positions left
\* out are those of the windows dropped for holding white space alone.
C17_NoGapsButBlankWindows ==
  last.op = "_naive_split" =>
    LET a == last.args
        tokens == _encode_tokens(a.text)
        windows == NaiveWindows(a.text, a.chunk_size, a.chunk_overlap)
        emitted == Emitted(windows)
    IN Max(a.chunk_size - a.chunk_overlap, 1) <= Max(a.chunk_size, 1)
       => \A p \in 0..(Len(tokens) - 1) :
            /\ Covered(p, windows)
            /\ strip(tokens[p + 1]) # <<>> => Covered(p, emitted)
            /\ ~Covered(p, emitted) =>
                 \A k \in DOMAIN windows :
                   (windows[k].start <= p /\ p < windows[k].end)
                     => strip(windows[k].chunk_text) = <<>>

\* C17 witness: a split with overlapping windows that emitted two chunks or
\* more and dropped a window of white space
C17_Witness ==
  /\ last.op = "_naive_split"
  /\ last.args.chunk_overlap >= 1
  /\ last.args.chunk_size > last.args.chunk_overlap
  /\ Len(last.value) >= 2
  /\ Len(last.value)
       < Len(NaiveWindows(last.args.text, last.args.chunk_size,
                          last.args.chunk_overlap))

WindowingOps == {"_naive_split", "_sentence_aware_split", "_token_windows"}

\* the text is not empty and holds no white space: no variant trims it, drops
\* it as blank or cuts it into sentences
Solid(text) == text # <<>> /\ \A i \in DOMAIN text : text[i] # " "

\* C18: each of the three windowing variants, given a text of at most
\* chunk_size (macro windows: window_tokens) tokens, returns exactly one chunk,
\* the whole text, whatever the overlap.  Stated for texts without white
\* space.
C18_SmallInputIsOneChunk ==
  ( /\ last.op \in WindowingOps
    /\ Solid(last.args.text)
    /\ count_tokens(last.args.text) <= last.args.chunk_size )
  => last.value = <<last.args.text>>

\* what remains of C18 when the windows do not overlap
C18_SmallInputNoOverlap ==
  ( /\ last.op \in WindowingOps
    /\ Solid(last.args.text)
    /\ count_tokens(last.args.text) <= last.args.chunk_size
    /\ last.op # "_sentence_aware_split" => last.args.chunk_overlap <= 0 )
  => last.value = <<last.args.text>>

\* C19: every chunk of the sentence-aware split has at most chunk_size tokens
\* (the sum over its sentences), unless it is one sentence that alone has
\* more.  Stated for chunk_size >= 1.
C19_SentenceChunksWithinBudget ==
  (last.op = "_sentence_aware_split" /\ last.args.chunk_size >= 1) =>
    LET groups == SentenceGroups(last.args.text, last.args.chunk_size)
    IN \A k \in DOMAIN groups :
         \/ SumTokens(groups[k]) <= last.args.chunk_size
         \/ /\ Len(groups[k]) = 1
            /\ count_tokens(groups[k][1]) > last.args.chunk_size

\* C20: chunk_document of the empty string or of white space alone returns
\* the empty sequence.
C20_BlankTextGivesNoChunk ==
  last.op = "chunk_document" =>
    (strip(last.args.text) = <<>> => last.value = <<>>)

\* the text has at least one character that is not white space
NonBlank(text) == strip(text) # <<>>

\* C21: for every text with a character that is not white space, on every
\* path (single chunk, LLM-assisted with any answer of the collaborator,
\* deterministic), chunk_document returns a sequence that is not empty.
C21_NonBlankTextGivesChunks ==
  (last.op = "chunk_document" /\ NonBlank(last.args.text))
    => (~last.raised /\ last.value # <<>>)

\* C21, the paths without the collaborator: the single chunk and the
\* deterministic split of a text that has a character other than white space
\* return a sequence that is not empty.
C21_DeterministicPathsGiveChunks ==
  ( /\ last.op = "chunk_document"
    /\ NonBlank(last.args.text)
    /\ ~last.args.use_llm_chunking )
    => (~last.raised /\ last.value # <<>>)

\* the collaborator's answer is a list, not empty, of strings
ValidList(response) ==
  /\ response.kind = "list"
  /\ Len(response.items) > 0
  /\ \A k \in DOMAIN response.items : response.items[k].isstr

\* the sections a window contributes according to the claim: the answer's
\* when it is a valid list, those of the fixed-window split of the window
\* otherwise (a window small enough is its own section)
SectionsOfWindow(window, chunk_size, chunk_overlap, response) ==
  IF count_tokens(window) <= chunk_size THEN <<window>>
  ELSE IF ValidList(response)
  THEN [k \in DOMAIN response.items |-> response.items[k].s]
  ELSE _naive_split(window, chunk_size, chunk_overlap)

RECURSIVE Flatten(_)
Flatten(seqs) ==
  IF seqs = <<>> THEN <<>> ELSE Head(seqs) \o Flatten(Tail(seqs))

\* the sections of all windows, in order, trimmed, blank ones left out
SectionsOfCall(args) ==
  LET windows == MacroWindows(args.text)
      all == Flatten([k \in DOMAIN windows |->
                        SectionsOfWindow(windows[k], args.chunk_size,
                                         args.chunk_overlap,
                                         args.responses[k])])
      kept == SelectSeq(all, LAMBDA p : strip(p) # <<>>)
  IN [k \in DOMAIN kept |-> strip(kept[k])]

\* the contents of the returned chunks, in order
ContentsOf(chunks) == [k \in DOMAIN chunks |-> chunks[k].content]

\* b holds the elements of a, each once, in the order of their first
\* occurrence in a
FirstOccurrences(a, b) ==
  /\ \A i \in DOMAIN b : \A j \in DOMAIN b : b[i] = b[j] => i = j
  /\ \A i \in DOMAIN a : \E j \in DOMAIN b : b[j] = a[i]
  /\ \A j \in DOMAIN b : \E i \in DOMAIN a : a[i] = b[j]
  /\ \A i \in DOMAIN b : \A j \in DOMAIN b :
       i < j =>
         \E m \in DOMAIN a :
           /\ a[m] = b[i]
           /\ \A n \in DOMAIN a : a[n] = b[j] => m < n

\* the call took the LLM-assisted path: use_llm_chunking is on and the text
\* has more than chunk_size tokens
LlmPath ==
  /\ last.op = "chunk_document"
  /\ last.args.use_llm_chunking
  /\ count_tokens(last.args.text) > last.args.chunk_size

\* C22: on the LLM-assisted path chunk_document does not raise, whatever the
\* collaborator answers for a window (error, unparseable text, JSON that is
\* not a list, empty list, list with elements that are not strings, valid
\* list): a window whose answer is not a valid list contributes the sections
\* of its own fixed-window split, every other window those of its answer.
C22_CollaboratorFailureFallsBackPerWindow ==
  LlmPath =>
    /\ ~last.raised
    /\ FirstOccurrences(SectionsOfCall(last.args), ContentsOf(last.value))

\* C22 without the two cases that raise (an answer holding an element that is
\* not a string, chunk_size = 0): every failure of the collaborator is
\* answered by the fixed-window split of that window alone.
C22_CaughtFailuresFallBackPerWindow ==
  ( /\ LlmPath
    /\ last.args.chunk_size # 0
    /\ \A k \in DOMAIN last.args.responses :
         \A i \in DOMAIN last.args.responses[k].items :
           last.args.responses[k].items[i].isstr )
  => /\ ~last.raised
     /\ FirstOccurrences(SectionsOfCall(last.args), ContentsOf(last.value))

\* C23: in every sequence chunk_document returns, the chunk at position i
\* (counted from 0) has chunk_index = i, every chunk has total_chunks equal to
\* the length of the sequence, and every chunk carries the filename of the
\* call.
C23_IndexTotalAndFilename ==
  last.op = "chunk_document" =>
    \A i \in DOMAIN last.value :
      /\ last.value[i].chunk_index = i - 1
      /\ last.value[i].total_chunks = Len(last.value)
      /\ last.value[i].filename = last.args.filename

\* C23 witness: a call on the LLM-assisted path returned three chunks or more
C23_Witness ==
  /\ LlmPath
  /\ ~last.raised
  /\ Len(last.value) >= 3
  /\ last.value[3].chunk_index = 2
  /\ last.value[3].filename = LlmFilename

\* the stripped, non-blank sections the windows of the call returned, from
\* the answers and from the fallback splits alike (the call did not raise)
ReturnedSections(args) ==
  LET windows == MacroWindows(args.text)
      all == Flatten([k \in DOMAIN windows |->
                        LET parts == _semantic_split(windows[k],
                                       args.chunk_size, args.chunk_overlap,
                                       args.responses[k]).value
                        IN [i \in DOMAIN parts |-> parts[i].s]])
      kept == SelectSeq(all, LAMBDA p : strip(p) # <<>>)
  IN [k \in DOMAIN kept |-> strip(kept[k])]

\* C24: on the LLM-assisted path no two sections of the final sequence have
\* the same content: the sections of all windows are deduplicated by exact
\* content, the first occurrence kept, the order of the others preserved.
C24_SectionsDeduplicated ==
  (LlmPath /\ ~last.raised) =>
    FirstOccurrences(ReturnedSections(last.args), ContentsOf(last.value))

\* C24 witness: two windows returned the same section, one from the
\* collaborator's list and one from the fallback split, and it was kept once
C24_Witness ==
  /\ LlmPath
  /\ ~last.raised
  /\ Len(last.value) >= 2
  /\ Len(ReturnedSections(last.args)) > Len(last.value)
  /\ \E k \in DOMAIN last.args.responses :
       last.args.responses[k].kind = "error"
  /\ \E k \in DOMAIN last.args.responses :
       ValidList(last.args.responses[k])

C26_LengthMismatchChangesNothing ==
  [][\A s \in Stores :
       ( /\ last'.op = "add"
         /\ last'.store = s
         /\ last'.args.nc # last'.args.nv )
       => /\ store'[s].index.vecs = store[s].index.vecs
          /\ store'[s].metadata = store[s].metadata
          /\ store'[s].document_info = store[s].document_info]_vars

\* C27: constructing a store and calling search, get_stats and
\* get_document_info never create, modify or delete any of the three files:
\* the files are as they were before the call, and until the first add there
\* is no file.
C27_OnlyAddWritesFiles ==
  [][ /\ (last'.op \in ReadOps \cup {"init"}) => disk' = disk
      /\ adds' = 0 => disk' = EmptyDisk ]_vars

\* C27 witness: a search answered with a chunk after an add whose save had
\* failed, that is, after reloading the files
C27_Witness ==
  /\ last.op = "search"
  /\ faults = 1
  /\ Len(last.value) > 0
  /\ disk.index_path.state = "ok"

C29_OwnSaveNeverStale ==
  \A s \in Stores : completed = s => ~Reloads(store[s], disk)

\* C29 witness: a read of the instance that completed two adds
C29_Witness ==
  /\ last.op \in ReadOps
  /\ completed = last.store
  /\ adds = 2
  /\ Len(store[last.store].metadata) >= 2

\* C30: after an add whose save failed after writing the index file, a
\* search or get_stats of the same instance answers from the state the add
\* left in memory: index, metadata sequence and registry are unchanged, and
\* the metadata sequence is as long as the index has vectors.
C30_ReadAfterFailedSaveKeepsMemory ==
  [][\A s \in Stores :
       ( /\ last.op = "add"
         /\ last.store = s
         /\ ~last.raised
         /\ last.args.failAt \in {2, 3}
         /\ last'.op \in {"search", "get_stats"}
         /\ last'.store = s )
       => /\ store'[s].index.vecs = store[s].index.vecs
          /\ store'[s].metadata = store[s].metadata
          /\ store'[s].document_info = store[s].document_info
          /\ Len(store'[s].metadata) = ntotal(store'[s].index)]_vars

\* C31: the loops of the fixed-window split and of the macro-window split end
\* for every text, chunk_size and chunk_overlap, chunk_overlap >= chunk_size
\* included: a loop that runs always comes to its return, and at no time has
\* it taken more turns (formed more windows) than the text has tokens; what
\* it returns is the result of the split.
C31_WindowingTerminates ==
  /\ [](LoopRunning =>
          last.loop.turns <= Len(last.loop.tokens))
  /\ [](last.op \in LoopFns =>
          /\ Len(last.value) <= Len(_encode_tokens(last.args.text))
          /\ last.value =
               IF last.args.fn = "_naive_split"
               THEN _naive_split(last.args.text, last.args.chunk_size,
                                 last.args.chunk_overlap)
               ELSE _token_windows(last.args.text, last.args.chunk_size,
                                   last.args.chunk_overlap))
  /\ (LoopRunning ~> (last.op \in LoopFns))

\* C31 witness: with chunk_overlap above chunk_size the loop has returned one
\* window per token of a text of three tokens
C31_Witness ==
  /\ last.op = "_token_windows"
  /\ last.args.chunk_overlap > last.args.chunk_size
  /\ last.args.chunk_size >= 1
  /\ Len(_encode_tokens(last.args.text)) = 3
  /\ Len(last.value) = 3

====
